---- MODULE Spec2Model ----
(***************************************************************************)
(* A model of src/src/objects-tasks.js: the cssSelectorBuilder facade and  *)
(* its Selector class, sellTickets and removeProperties.                   *)
(*                                                                         *)
(* JavaScript values are modelled as follows.  A string is a TLA+ string.  *)
(* A field that holds null or a string is a sequence of length 0 (null) or *)
(* 1 (the string), so that null and the empty string stay distinct, as     *)
(* they are in JavaScript; Truthy is JavaScript's ToBoolean on it.         *)
(***************************************************************************)
EXTENDS Integers, Sequences, FiniteSets, TLC

VARIABLES
    sels,        \* the heap of Selector instances, in allocation order
    lastCall,    \* the most recent call on the builder and its outcome
    queue,       \* sellTickets: the argument
    i,           \* sellTickets: the loop index (0-based, as in the code)
    sellerMoney, \* sellTickets: the seller's bills
    pc,          \* sellTickets: position in the function
    ret,         \* sellTickets: the value returned
    obj0,        \* removeProperties: the object as passed in
    obj,         \* removeProperties: the object (mutated in place)
    keys,        \* removeProperties: the keys argument
    k,           \* removeProperties: number of keys forEach has visited
    rpc          \* removeProperties: position in the function

vars == <<sels, lastCall, queue, i, sellerMoney, pc, ret, obj0, obj, keys, k, rpc>>
selVars == <<sels, lastCall>>
ticketVars == <<queue, i, sellerMoney, pc, ret>>
removeVars == <<obj0, obj, keys, k, rpc>>

(***************************************************************************)
(* Bounds of the model.                                                    *)
(***************************************************************************)
MaxHeap == 5     \* Spec: instances allocated plus the parts they hold
MaxChain == 6    \* SpecChain: the instance plus the parts it holds
MaxQueue == 7    \* length of the ticket queue
MaxKeys == 2     \* length of the keys list of removeProperties

Values == {"", "a"}     \* the strings passed along one chain
FacadeValues == {"a"}   \* the strings passed when several instances live
Combinators == {"+"}

(***************************************************************************)
(* The Selector class.                                                     *)
(***************************************************************************)
Null == <<>>
Some(v) == <<v>>
Truthy(o) == o # Null /\ o[1] # ""

NewSelector ==
    [elementValue |-> Null, idValue |-> Null, classValues |-> <<>>,
     attrValues |-> <<>>, psClassValues |-> <<>>, psElementValue |-> Null,
     lastAddedPartIndex |-> -1, isCombined |-> FALSE, stringValue |-> Null]

PART_ORDER ==
    [element |-> 0, id |-> 1, class |-> 2, attr |-> 3, pseudoClass |-> 4,
     pseudoElement |-> 5]

PartNames == {"element", "id", "class", "attr", "pseudoClass", "pseudoElement"}

\* The outcome of a method call on an instance: the error thrown ("none" when
\* the call returns), the instance's fields afterwards and the string returned
\* (only stringify returns one; the append methods return the instance).
Outcome(e, s, r) == [err |-> e, sel |-> s, ret |-> r]

DuplicateError == "Element, id and pseudo-element should not occur more then one time inside the selector"
OrderError == "Selector parts should be arranged in the following order: element, id, class, attribute, pseudo-class, pseudo-element"

\* checkOrder with the assignment moved before the test.
checkOrderEager(s, partName) ==
    LET orderIndex == PART_ORDER[partName]
        t == [s EXCEPT !.lastAddedPartIndex = orderIndex]
    IN  IF orderIndex < s.lastAddedPartIndex
        THEN Outcome(OrderError, t, "")
        ELSE Outcome("none", t, "")

\* checkOrder with a test that lets a part follow the part one rank above it.
checkOrderLax(s, partName) ==
    LET orderIndex == PART_ORDER[partName]
    IN  IF orderIndex < s.lastAddedPartIndex - 1
        THEN Outcome(OrderError, s, "")
        ELSE Outcome("none", [s EXCEPT !.lastAddedPartIndex = orderIndex], "")

checkOrder(s, partName) ==
    LET orderIndex == PART_ORDER[partName]
    IN  IF orderIndex < s.lastAddedPartIndex
        THEN Outcome(OrderError, s, "")
        ELSE Outcome("none", [s EXCEPT !.lastAddedPartIndex = orderIndex], "")

element(s, value) ==
    IF Truthy(s.elementValue)
    THEN Outcome(DuplicateError, s, "")
    ELSE LET c == checkOrder(s, "element")
         IN  IF c.err # "none" THEN c
             ELSE Outcome("none", [c.sel EXCEPT !.elementValue = Some(value)], "")

id(s, value) ==
    IF Truthy(s.idValue)
    THEN Outcome(DuplicateError, s, "")
    ELSE LET c == checkOrder(s, "id")
         IN  IF c.err # "none" THEN c
             ELSE Outcome("none", [c.sel EXCEPT !.idValue = Some(value)], "")

\* class with the push moved before the order check.
classPushFirst(s, value) ==
    checkOrder([s EXCEPT !.classValues = Append(@, value)], "class")

class(s, value) ==
    LET c == checkOrder(s, "class")
    IN  IF c.err # "none" THEN c
        ELSE Outcome("none", [c.sel EXCEPT !.classValues = Append(@, value)], "")

attr(s, value) ==
    LET c == checkOrder(s, "attr")
    IN  IF c.err # "none" THEN c
        ELSE Outcome("none", [c.sel EXCEPT !.attrValues = Append(@, value)], "")

pseudoClass(s, value) ==
    LET c == checkOrder(s, "pseudoClass")
    IN  IF c.err # "none" THEN c
        ELSE Outcome("none", [c.sel EXCEPT !.psClassValues = Append(@, value)], "")

pseudoElement(s, value) ==
    IF Truthy(s.psElementValue)
    THEN Outcome(DuplicateError, s, "")
    ELSE LET c == checkOrder(s, "pseudoElement")
         IN  IF c.err # "none" THEN c
             ELSE Outcome("none", [c.sel EXCEPT !.psElementValue = Some(value)], "")

\* result += prefix + v + suffix for each v of the list, in order (forEach).
RECURSIVE JoinEach(_, _, _)
JoinEach(list, prefix, suffix) ==
    IF list = <<>> THEN ""
    ELSE prefix \o Head(list) \o suffix \o JoinEach(Tail(list), prefix, suffix)

\* stringify that stores its result on the instance, as combine does.
stringifyMemo(s) ==
    IF s.isCombined
    THEN Outcome("none", s, s.stringValue[1])
    ELSE LET r ==
               (IF Truthy(s.elementValue) THEN s.elementValue[1] ELSE "")
            \o (IF Truthy(s.idValue) THEN "#" \o s.idValue[1] ELSE "")
            \o JoinEach(s.classValues, ".", "")
            \o JoinEach(s.attrValues, "[", "]")
            \o JoinEach(s.psClassValues, ":", "")
            \o (IF Truthy(s.psElementValue) THEN "::" \o s.psElementValue[1] ELSE "")
         IN  Outcome("none", [s EXCEPT !.isCombined = TRUE, !.stringValue = Some(r)], r)

stringify(s) ==
    IF s.isCombined
    THEN Outcome("none", s, s.stringValue[1])
    ELSE Outcome("none", s,
            (IF Truthy(s.elementValue) THEN s.elementValue[1] ELSE "")
         \o (IF Truthy(s.idValue) THEN "#" \o s.idValue[1] ELSE "")
         \o JoinEach(s.classValues, ".", "")
         \o JoinEach(s.attrValues, "[", "]")
         \o JoinEach(s.psClassValues, ":", "")
         \o (IF Truthy(s.psElementValue) THEN "::" \o s.psElementValue[1] ELSE ""))

\* combine without the spaces around the combinator.
combineNoSpaces(heap, l, combinator, r) ==
    LET o1 == stringify(heap[l])
        h1 == [heap EXCEPT ![l] = o1.sel]
        o2 == stringify(h1[r])
        h2 == [h1 EXCEPT ![r] = o2.sel]
        result == [NewSelector EXCEPT
                     !.stringValue = Some(o1.ret \o combinator \o o2.ret),
                     !.isCombined = TRUE]
    IN  Append(h2, result)

\* combine that also writes the combined string into selector1.
combineInto(heap, l, combinator, r) ==
    LET o1 == stringify(heap[l])
        o2 == stringify(heap[r])
        str == o1.ret \o " " \o combinator \o " " \o o2.ret
        result == [NewSelector EXCEPT !.stringValue = Some(str), !.isCombined = TRUE]
    IN  Append([heap EXCEPT ![l] = [@ EXCEPT !.stringValue = Some(str),
                                             !.isCombined = TRUE]], result)

\* Selector.combine on the heap: stringify runs on selector1, then on
\* selector2, and the result is a new instance.  Yields the heap afterwards.
combine(heap, l, combinator, r) ==
    LET o1 == stringify(heap[l])
        h1 == [heap EXCEPT ![l] = o1.sel]
        o2 == stringify(h1[r])
        h2 == [h1 EXCEPT ![r] = o2.sel]
        result == [NewSelector EXCEPT
                     !.stringValue = Some(o1.ret \o " " \o combinator \o " " \o o2.ret),
                     !.isCombined = TRUE]
    IN  Append(h2, result)

\* The append method named op.
Method(op, s, value) ==
    CASE op = "element" -> element(s, value)
      [] op = "id" -> id(s, value)
      [] op = "class" -> class(s, value)
      [] op = "attr" -> attr(s, value)
      [] op = "pseudoClass" -> pseudoClass(s, value)
      [] op = "pseudoElement" -> pseudoElement(s, value)

\* Number of parts an instance holds, and the size of a heap: its instances
\* plus the parts they hold.
Parts(s) ==
      (IF s.elementValue # Null THEN 1 ELSE 0) + (IF s.idValue # Null THEN 1 ELSE 0)
    + Len(s.classValues) + Len(s.attrValues) + Len(s.psClassValues)
    + (IF s.psElementValue # Null THEN 1 ELSE 0)

RECURSIVE HeapSize(_)
HeapSize(heap) ==
    IF heap = <<>> THEN 0 ELSE 1 + Parts(Head(heap)) + HeapSize(Tail(heap))

\* A call as its caller sees it: the method, whether it went through the
\* facade, the instance it ran on (for the facade, the instance it returned),
\* for combine the two selectors and the combinator, the error thrown and the
\* string returned.
Call(op, facade, self, l, c, r, e, str) ==
    [op |-> op, facade |-> facade, self |-> self, left |-> l, combinator |-> c,
     right |-> r, err |-> e, ret |-> str]

NoCall == Call("none", FALSE, 0, 0, "", 0, "none", "")

\* selector.<op>(value) on an existing instance: `this` is mutated in place,
\* or the call throws.
CallOn(op, self, value, cap) ==
    LET o == Method(op, sels[self], value)
        heap == [sels EXCEPT ![self] = o.sel]
    IN  /\ HeapSize(heap) <= cap
        /\ sels' = heap
        /\ lastCall' = Call(op, FALSE, self, 0, "", 0, o.err, "")

\* cssSelectorBuilder.<op>(value): new Selector().<op>(value).
FacadeOn(op, value, cap) ==
    LET self == Len(sels) + 1
        o == Method(op, NewSelector, value)
        heap == IF o.err = "none" THEN Append(sels, o.sel) ELSE sels
    IN  /\ HeapSize(heap) <= cap
        /\ sels' = heap
        /\ lastCall' = Call(op, TRUE, self, 0, "", 0, o.err, "")

Element(vals, cap) ==
    /\ \E self \in 1..Len(sels), v \in vals : CallOn("element", self, v, cap)
    /\ UNCHANGED <<ticketVars, removeVars>>

Id(vals, cap) ==
    /\ \E self \in 1..Len(sels), v \in vals : CallOn("id", self, v, cap)
    /\ UNCHANGED <<ticketVars, removeVars>>

Class(vals, cap) ==
    /\ \E self \in 1..Len(sels), v \in vals : CallOn("class", self, v, cap)
    /\ UNCHANGED <<ticketVars, removeVars>>

Attr(vals, cap) ==
    /\ \E self \in 1..Len(sels), v \in vals : CallOn("attr", self, v, cap)
    /\ UNCHANGED <<ticketVars, removeVars>>

PseudoClass(vals, cap) ==
    /\ \E self \in 1..Len(sels), v \in vals : CallOn("pseudoClass", self, v, cap)
    /\ UNCHANGED <<ticketVars, removeVars>>

PseudoElement(vals, cap) ==
    /\ \E self \in 1..Len(sels), v \in vals : CallOn("pseudoElement", self, v, cap)
    /\ UNCHANGED <<ticketVars, removeVars>>

Stringify ==
    /\ \E self \in 1..Len(sels) :
          LET o == stringify(sels[self])
          IN  /\ sels' = [sels EXCEPT ![self] = o.sel]
              /\ lastCall' = Call("stringify", FALSE, self, 0, "", 0, o.err, o.ret)
    /\ UNCHANGED <<ticketVars, removeVars>>

FacadeElement ==
    /\ \E v \in FacadeValues : FacadeOn("element", v, MaxHeap)
    /\ UNCHANGED <<ticketVars, removeVars>>

FacadeId ==
    /\ \E v \in FacadeValues : FacadeOn("id", v, MaxHeap)
    /\ UNCHANGED <<ticketVars, removeVars>>

FacadeClass ==
    /\ \E v \in FacadeValues : FacadeOn("class", v, MaxHeap)
    /\ UNCHANGED <<ticketVars, removeVars>>

FacadeAttr ==
    /\ \E v \in FacadeValues : FacadeOn("attr", v, MaxHeap)
    /\ UNCHANGED <<ticketVars, removeVars>>

FacadePseudoClass ==
    /\ \E v \in FacadeValues : FacadeOn("pseudoClass", v, MaxHeap)
    /\ UNCHANGED <<ticketVars, removeVars>>

FacadePseudoElement ==
    /\ \E v \in FacadeValues : FacadeOn("pseudoElement", v, MaxHeap)
    /\ UNCHANGED <<ticketVars, removeVars>>

FacadeCombine ==
    /\ \E l \in 1..Len(sels), r \in 1..Len(sels), c \in Combinators :
          LET heap == combine(sels, l, c, r)
          IN  /\ HeapSize(heap) <= MaxHeap
              /\ sels' = heap
              /\ lastCall' = Call("combine", TRUE, Len(sels) + 1, l, c, r, "none", "")
    /\ UNCHANGED <<ticketVars, removeVars>>

IdleTickets ==
    /\ queue = <<>> /\ i = 0 /\ pc = "idle" /\ ret = FALSE
    /\ sellerMoney = [b \in {25, 50, 100} |-> 0]

IdleRemove ==
    /\ obj0 = <<>> /\ obj = <<>> /\ keys = <<>> /\ k = 0 /\ rpc = "idle"

(***************************************************************************)
(* Spec: the facade.  Any number of instances, built by the facade, chained *)
(* on, stringified and combined, within MaxHeap.                           *)
(***************************************************************************)
Init ==
    /\ sels = <<>>
    /\ lastCall = NoCall
    /\ IdleTickets
    /\ IdleRemove

Next ==
    \/ Element(FacadeValues, MaxHeap) \/ Id(FacadeValues, MaxHeap)
    \/ Class(FacadeValues, MaxHeap) \/ Attr(FacadeValues, MaxHeap)
    \/ PseudoClass(FacadeValues, MaxHeap) \/ PseudoElement(FacadeValues, MaxHeap)
    \/ Stringify
    \/ FacadeElement \/ FacadeId \/ FacadeClass \/ FacadeAttr
    \/ FacadePseudoClass \/ FacadePseudoElement \/ FacadeCombine

Spec == Init /\ [][Next]_vars

(***************************************************************************)
(* SpecChain: one chain.  The instance one facade call has returned, and   *)
(* the calls chained on it, with the empty string among the values.        *)
(***************************************************************************)
InitChain ==
    /\ \E op \in PartNames, v \in Values :
          /\ sels = <<Method(op, NewSelector, v).sel>>
          /\ lastCall = Call(op, TRUE, 1, 0, "", 0, "none", "")
    /\ IdleTickets
    /\ IdleRemove

NextChain ==
    \/ Element(Values, MaxChain) \/ Id(Values, MaxChain)
    \/ Class(Values, MaxChain) \/ Attr(Values, MaxChain)
    \/ PseudoClass(Values, MaxChain) \/ PseudoElement(Values, MaxChain)
    \/ Stringify

SpecChain == InitChain /\ [][NextChain]_vars

(***************************************************************************)
(* sellTickets(queue).  queue[j] of the code is queue[j + 1] here; an index *)
(* past the end reads undefined, which equals no bill.                     *)
(***************************************************************************)
Bills == {25, 50, 100}

\* The test without the 25 that goes with the 50.
CanChange100NoQuarter(m) == m[25] >= 3 \/ m[50] > 0

\* The test of the second branch of the loop, on the seller's bills.
CanChange100(m) == m[25] >= 3 \/ (m[25] > 0 /\ m[50] > 0)

\* The body of that branch.
GiveChange100(m) ==
    IF m[50] > 0
    THEN [m EXCEPT ![100] = @ + 1, ![50] = @ - 1, ![25] = @ - 1]
    ELSE [m EXCEPT ![100] = @ + 1, ![25] = @ - 3]

\* The test of the first branch of the loop.
CanChange50(m) == m[25] # 0

SellFirstRefuse ==
    /\ pc = "start"
    /\ Len(queue) > 0 /\ queue[1] \in {50, 100}
    /\ ret' = FALSE
    /\ pc' = "done"
    /\ UNCHANGED <<queue, i, sellerMoney, selVars, removeVars>>

SellFirst ==
    /\ pc = "start"
    /\ ~(Len(queue) > 0 /\ queue[1] \in {50, 100})
    /\ sellerMoney' = [sellerMoney EXCEPT ![25] = @ + 1]
    /\ i' = 1
    /\ pc' = "loop"
    /\ UNCHANGED <<queue, ret, selVars, removeVars>>

Sell50 ==
    /\ pc = "loop" /\ i < Len(queue)
    /\ queue[i + 1] = 50 /\ CanChange50(sellerMoney)
    /\ sellerMoney' = [sellerMoney EXCEPT ![50] = @ + 1, ![25] = @ - 1]
    /\ i' = i + 1
    /\ UNCHANGED <<queue, pc, ret, selVars, removeVars>>

Sell100 ==
    /\ pc = "loop" /\ i < Len(queue)
    /\ ~(queue[i + 1] = 50 /\ CanChange50(sellerMoney))
    /\ queue[i + 1] = 100 /\ CanChange100(sellerMoney)
    /\ sellerMoney' = GiveChange100(sellerMoney)
    /\ i' = i + 1
    /\ UNCHANGED <<queue, pc, ret, selVars, removeVars>>

Sell25 ==
    /\ pc = "loop" /\ i < Len(queue)
    /\ ~(queue[i + 1] = 50 /\ CanChange50(sellerMoney))
    /\ ~(queue[i + 1] = 100 /\ CanChange100(sellerMoney))
    /\ queue[i + 1] = 25
    /\ sellerMoney' = [sellerMoney EXCEPT ![25] = @ + 1]
    /\ i' = i + 1
    /\ UNCHANGED <<queue, pc, ret, selVars, removeVars>>

SellRefuse ==
    /\ pc = "loop" /\ i < Len(queue)
    /\ ~(queue[i + 1] = 50 /\ CanChange50(sellerMoney))
    /\ ~(queue[i + 1] = 100 /\ CanChange100(sellerMoney))
    /\ queue[i + 1] # 25
    /\ ret' = FALSE
    /\ pc' = "done"
    /\ UNCHANGED <<queue, i, sellerMoney, selVars, removeVars>>

SellReturn ==
    /\ pc = "loop" /\ ~(i < Len(queue))
    /\ ret' = TRUE
    /\ pc' = "done"
    /\ UNCHANGED <<queue, i, sellerMoney, selVars, removeVars>>

RECURSIVE Queues(_)
Queues(n) ==
    IF n = 0 THEN {<<>>}
    ELSE Queues(n - 1) \cup {Append(q, b) : q \in {p \in Queues(n - 1) : Len(p) = n - 1}, b \in Bills}

InitTickets ==
    /\ queue \in Queues(MaxQueue)
    /\ i = 0
    /\ sellerMoney = [b \in Bills |-> 0]
    /\ pc = "start"
    /\ ret = FALSE
    /\ sels = <<>> /\ lastCall = NoCall
    /\ IdleRemove

NextTickets ==
    \/ SellFirstRefuse \/ SellFirst \/ Sell50 \/ Sell100 \/ Sell25
    \/ SellRefuse \/ SellReturn

SpecTickets == InitTickets /\ [][NextTickets]_vars

(***************************************************************************)
(* removeProperties(obj, keys).  An object is a function from its own      *)
(* property names to their values; the values are numbers, 0 being the     *)
(* falsy one.  Reading a property the object lacks gives undefined, which  *)
(* is falsy too.                                                           *)
(***************************************************************************)
PropNames == {"a", "b", "c"}
PropValues == {0, 1}

\* if (obj[key])
HasTruthy(o, key) == key \in DOMAIN o /\ o[key] # 0

\* Reflect.deleteProperty(obj, key)
DeleteProperty(o, key) == [x \in DOMAIN o \ {key} |-> o[x]]

RemoveDelete ==
    /\ rpc = "forEach" /\ k < Len(keys)
    /\ HasTruthy(obj, keys[k + 1])
    /\ obj' = DeleteProperty(obj, keys[k + 1])
    /\ k' = k + 1
    /\ UNCHANGED <<obj0, keys, rpc, selVars, ticketVars>>

RemoveSkip ==
    /\ rpc = "forEach" /\ k < Len(keys)
    /\ ~HasTruthy(obj, keys[k + 1])
    /\ k' = k + 1
    /\ UNCHANGED <<obj0, obj, keys, rpc, selVars, ticketVars>>

RemoveReturn ==
    /\ rpc = "forEach" /\ k = Len(keys)
    /\ rpc' = "done"
    /\ UNCHANGED <<obj0, obj, keys, k, selVars, ticketVars>>

RECURSIVE KeyLists(_)
KeyLists(n) ==
    IF n = 0 THEN {<<>>}
    ELSE KeyLists(n - 1) \cup {Append(q, b) : q \in {p \in KeyLists(n - 1) : Len(p) = n - 1}, b \in PropNames}

InitRemove ==
    /\ obj0 \in UNION {[S -> PropValues] : S \in SUBSET PropNames}
    /\ obj = obj0
    /\ keys \in KeyLists(MaxKeys)
    /\ k = 0
    /\ rpc = "forEach"
    /\ sels = <<>> /\ lastCall = NoCall
    /\ IdleTickets

NextRemove == RemoveDelete \/ RemoveSkip \/ RemoveReturn

SpecRemove == InitRemove /\ [][NextRemove]_vars

(***************************************************************************)
(* The properties.  A step of the builder is identified by lastCall', the  *)
(* call it records; the unprimed variables are the state the call found.   *)
(***************************************************************************)
Singletons == {"element", "id", "pseudoElement"}
MultiValued == {"class", "attr", "pseudoClass"}

\* The field a singleton part is stored in.
Stored(s, op) ==
    CASE op = "element" -> s.elementValue
      [] op = "id" -> s.idValue
      [] op = "pseudoElement" -> s.psElementValue

\* The step is a chained append (not through the facade) on a non-combined
\* instance.
AppendStep ==
    /\ lastCall'.op \in PartNames
    /\ ~lastCall'.facade
    /\ lastCall'.self \in 1..Len(sels)
    /\ ~sels[lastCall'.self].isCombined

\* C1 as stated: on a non-combined Selector, an append whose rank is strictly
\* less than lastPartRank fails with the order-violation error, and an append
\* of class, attr or pseudoClass whose rank is at least lastPartRank succeeds.
C1_AsStated ==
    [][AppendStep =>
         LET s == sels[lastCall'.self]
             rank == PART_ORDER[lastCall'.op]
         IN  /\ rank < s.lastAddedPartIndex => lastCall'.err = OrderError
             /\ (lastCall'.op \in MultiValued /\ rank >= s.lastAddedPartIndex)
                    => lastCall'.err = "none"]_vars

\* C1 as amended: on a non-combined Selector, an append whose rank is strictly
\* less than lastPartRank fails; the error is the order-violation error when
\* the part is class, attr or pseudoClass or is a singleton not yet set, and
\* the duplicate-part error when it is element or id already set to a
\* non-empty value (the duplicate check runs before the order check).  An
\* append of class, attr or pseudoClass whose rank is at least lastPartRank
\* succeeds.
C1_OrderOrDuplicate ==
    [][AppendStep =>
         LET s == sels[lastCall'.self]
             op == lastCall'.op
             rank == PART_ORDER[op]
         IN  /\ rank < s.lastAddedPartIndex =>
                  /\ lastCall'.err \in {OrderError, DuplicateError}
                  /\ op \in MultiValued => lastCall'.err = OrderError
                  /\ (op \in Singletons /\ Stored(s, op) = Null)
                         => lastCall'.err = OrderError
                  /\ (op \in Singletons /\ Truthy(Stored(s, op)))
                         => lastCall'.err = DuplicateError
             /\ (op \in MultiValued /\ rank >= s.lastAddedPartIndex)
                    => lastCall'.err = "none"]_vars

\* class(...) after attr(...) has just failed with the order-violation error.
C1_Witness ==
    /\ lastCall.op = "class" /\ lastCall.err = OrderError
    /\ sels[1].lastAddedPartIndex = 3
    /\ Len(sels[1].attrValues) > 0

\* C2 as stated: element, id or pseudoElement called on an instance on which
\* that part has already been set, with any string value, fails with the
\* duplicate-part error.
C2_AsStated ==
    [][(AppendStep /\ lastCall'.op \in Singletons
          /\ Stored(sels[lastCall'.self], lastCall'.op) # Null)
         => lastCall'.err = DuplicateError]_vars

\* What stringify() is to return for a non-combined instance: the element tag
\* if set, '#' + id if set, '.' + name for each class, '[' + fragment + ']'
\* for each attribute, ':' + name for each pseudo-class, '::' + pseudo-element
\* if set.
Expected(s) ==
       (IF s.elementValue # Null THEN s.elementValue[1] ELSE "")
    \o (IF s.idValue # Null THEN "#" \o s.idValue[1] ELSE "")
    \o JoinEach(s.classValues, ".", "")
    \o JoinEach(s.attrValues, "[", "]")
    \o JoinEach(s.psClassValues, ":", "")
    \o (IF s.psElementValue # Null THEN "::" \o s.psElementValue[1] ELSE "")

\* C3 as stated: stringify() on a non-combined Selector returns the
\* concatenation, in the fixed order, of the fragments of the parts set.
C3_AsStated ==
    (lastCall.op = "stringify" /\ ~sels[lastCall.self].isCombined)
        => lastCall.ret = Expected(sels[lastCall.self])

\* C4: combine(left, combinator, right).stringify() equals
\* stringify(left) + ' ' + combinator + ' ' + stringify(right), left and
\* right being built by appends or themselves combined.
C4_CombineString ==
    [][lastCall'.op = "combine" =>
         /\ lastCall'.self \in 1..Len(sels')
         /\ stringify(sels'[lastCall'.self]).ret =
                stringify(sels[lastCall'.left]).ret \o " " \o lastCall'.combinator
                \o " " \o stringify(sels[lastCall'.right]).ret]_vars

\* A combined Selector has just been combined with another Selector.
C4_Witness ==
    /\ lastCall.op = "combine"
    /\ sels[lastCall.left].isCombined
    /\ ~sels[lastCall.right].isCombined

\* C5: stringify() leaves every field of the instance unchanged, and called
\* again with no append in between it returns the same string.
C5_StringifyReadOnly ==
    /\ [](\A self \in 1..Len(sels) :
             /\ stringify(sels[self]).sel = sels[self]
             /\ stringify(stringify(sels[self]).sel).ret = stringify(sels[self]).ret)
    /\ [][lastCall'.op = "stringify" =>
            /\ sels' = sels
            /\ (lastCall.op = "stringify" /\ lastCall.self = lastCall'.self)
                   => lastCall'.ret = lastCall.ret]_vars

\* stringify() has just returned the string of a combined Selector.
C5_Witness ==
    /\ lastCall.op = "stringify"
    /\ sels[lastCall.self].isCombined
    /\ lastCall.ret = sels[lastCall.self].stringValue[1]
    /\ Len(sels) = 3

\* C6: every facade call returns a new instance, and a call on one instance
\* (an append, a stringify, its use as an input of combine) leaves every
\* other instance, and so its stringify() result, unchanged; combine leaves
\* both of its inputs unchanged.
C6_Independent ==
    [][/\ lastCall'.facade =>
            /\ lastCall'.self = Len(sels) + 1
            /\ Len(sels') = Len(sels) + 1
            /\ \A j \in 1..Len(sels) :
                  /\ sels'[j] = sels[j]
                  /\ stringify(sels'[j]).ret = stringify(sels[j]).ret
       /\ ~lastCall'.facade =>
            /\ Len(sels') = Len(sels)
            /\ \A j \in 1..Len(sels) \ {lastCall'.self} :
                  /\ sels'[j] = sels[j]
                  /\ stringify(sels'[j]).ret = stringify(sels[j]).ret]_vars

\* An append has just succeeded on one of two instances built by the facade.
C6_Witness ==
    /\ lastCall.op \in PartNames /\ ~lastCall.facade /\ lastCall.err = "none"
    /\ Len(sels) >= 2
    /\ \A j \in 1..Len(sels) : ~sels[j].isCombined

\* Whether a seller holding m25 and m50 bills of 25 and 50 can give every
\* customer of q exact change, choosing the bills of each change freely.
RECURSIVE CanServe(_, _, _)
CanServe(q, m25, m50) ==
    IF q = <<>> THEN TRUE
    ELSE CASE Head(q) = 25 -> CanServe(Tail(q), m25 + 1, m50)
           [] Head(q) = 50 -> m25 >= 1 /\ CanServe(Tail(q), m25 - 1, m50 + 1)
           [] Head(q) = 100 ->
                \/ m25 >= 1 /\ m50 >= 1 /\ CanServe(Tail(q), m25 - 1, m50 - 1)
                \/ m25 >= 3 /\ CanServe(Tail(q), m25 - 3, m50)

\* C7: sellTickets(queue) returns true exactly when a seller who starts with
\* no money can give every customer change in queue order, and it returns
\* false at the first customer who cannot be given change.
C7_SellTickets ==
    pc = "done" =>
        /\ ret = CanServe(queue, 0, 0)
        /\ ~ret => /\ i < Len(queue)
                   /\ CanServe(SubSeq(queue, 1, i), 0, 0)
                   /\ ~CanServe(SubSeq(queue, 1, i + 1), 0, 0)

\* Every customer was served of a queue in which the change for the 100 could
\* be given in both ways, and only 50 + 25 leaves change for the last 50.
C7_Witness ==
    pc = "done" /\ ret /\ queue = <<25, 25, 25, 25, 50, 100, 50>>

\* C8 as stated: the object removeProperties returns has none of the listed
\* keys, whatever their values were, and keeps every other property of obj
\* with its value.
C8_AsStated ==
    rpc = "done" =>
        /\ \A j \in 1..Len(keys) : keys[j] \notin DOMAIN obj
        /\ \A x \in DOMAIN obj0 \ {keys[j] : j \in 1..Len(keys)} :
              x \in DOMAIN obj /\ obj[x] = obj0[x]

\* The highest rank among the part kinds an instance holds, -1 when none.
HighestRank(s) ==
    IF s.psElementValue # Null THEN PART_ORDER.pseudoElement
    ELSE IF s.psClassValues # <<>> THEN PART_ORDER.pseudoClass
    ELSE IF s.attrValues # <<>> THEN PART_ORDER.attr
    ELSE IF s.classValues # <<>> THEN PART_ORDER.class
    ELSE IF s.idValue # Null THEN PART_ORDER.id
    ELSE IF s.elementValue # Null THEN PART_ORDER.element
    ELSE NewSelector.lastAddedPartIndex

\* C9: lastPartRank of a non-combined Selector is the highest rank among the
\* part kinds appended so far, after successful and failing calls alike, and
\* it never decreases.
C9_LastPartRank ==
    /\ [](\A self \in 1..Len(sels) :
             ~sels[self].isCombined
                 => sels[self].lastAddedPartIndex = HighestRank(sels[self]))
    /\ [][\A self \in 1..Len(sels) :
             ~sels[self].isCombined
                 => sels'[self].lastAddedPartIndex >= sels[self].lastAddedPartIndex]_vars

\* A lower-ranked append has just failed on an instance holding an attribute
\* and a pseudo-class, whose rank is still the pseudo-class's.
C9_Witness ==
    /\ lastCall.err = OrderError /\ lastCall.op = "id"
    /\ sels[1].lastAddedPartIndex = 4
    /\ Len(sels[1].attrValues) > 0 /\ Len(sels[1].psClassValues) > 0

\* C10: an append that throws leaves every field of the instance as it was,
\* so stringify() returns the string it returned before.
C10_FailingAppendAtomic ==
    [][(lastCall'.op \in PartNames /\ lastCall'.err # "none") =>
         /\ sels' = sels
         /\ stringify(sels'[lastCall'.self]).ret
                = stringify(sels[lastCall'.self]).ret]_vars

\* pseudoElement(...) has just failed as a duplicate on an instance that
\* holds classes.
C10_Witness ==
    /\ lastCall.op = "pseudoElement" /\ lastCall.err = DuplicateError
    /\ Len(sels[1].classValues) = 2
    /\ stringify(sels[1]).ret # ""

====
